---- MODULE Spec2Model ----
(***************************************************************************)
(* A model of flask_app.py: the year-keyed in-memory cache, the paginated  *)
(* fetch from the NHTSA API, the three JSON/PDF handlers and               *)
(* clean_filename.                                                         *)
(*                                                                         *)
(*   Spec          one request at a time runs fetch_nhtsa_data             *)
(*   SpecConc      requests interleave at the steps of get_cached_data,    *)
(*                 the pagination loop and cache_data                      *)
(*   SpecHandlers  the handlers applied to the table fetch_nhtsa_data      *)
(*                 returned                                                *)
(*   SpecClean     clean_filename applied to strings                       *)
(***************************************************************************)
EXTENDS Integers, Sequences, FiniteSets, TLC

VARIABLES
    now,            \* datetime.now(), in minutes
    memory_cache,   \* dict: year -> <<cached_time, data>>
    pc,             \* per request: the line of fetch_nhtsa_data it is at
    year,           \* per request: the argument of fetch_nhtsa_data
    local,          \* per request: <<cached_time, data>> unpacked at line 33
    all_data,       \* per request: the rows concatenated so far
    page,           \* per request: the loop variable
    result,         \* per request: the value fetch_nhtsa_data returned
    requests,       \* per request: the page numbers asked of the API, in order
    responses,      \* per request: what the API answered, in order
    observed,       \* per request: what get_cached_data saw of the cache
    available,      \* per year: how many full pages the API holds
    ticks,          \* number of clock advances so far
    table,          \* the DataFrame fetch_nhtsa_data returned to a handler
    request,        \* the HTTP request a handler is answering
    response,       \* the handler's answer
    text,           \* the argument of clean_filename
    cleaned         \* the value clean_filename returned

fetchVars == <<now, memory_cache, pc, year, local, all_data, page, result,
               requests, responses, observed, available, ticks>>
handlerVars == <<table, request, response>>
cleanVars == <<text, cleaned>>
vars == <<fetchVars, handlerVars, cleanVars>>

----------------------------------------------------------------------------
(* Bounds of the model *)

MaxTicks == 4
NumReqs == 2
ConcFullPages == 1
MaxBase == 2
MaxLen == 3

(* Constants of the program *)

CACHE_DURATION == 30
max_pages == 10
min_rows == 10

Reqs == 1..NumReqs
Years == {2024}

----------------------------------------------------------------------------
(* Strings: sequences of characters, compared by code point as Python does. *)
(* Four characters of the table are written by name.                      *)

Ascii ==
    <<" ", "!", "dquote", "#", "$", "%", "&", "quote", "(", ")", "*", "+", ",", "-",
      ".", "/", "0", "1", "2", "3", "4", "5", "6", "7", "8", "9", ":", ";",
      "<", "=", ">", "?", "@", "A", "B", "C", "D", "E", "F", "G", "H", "I",
      "J", "K", "L", "M", "N", "O", "P", "Q", "R", "S", "T", "U", "V", "W",
      "X", "Y", "Z", "[", "backslash", "]", "^", "_", "backquote", "a", "b", "c", "d", "e",
      "f", "g", "h", "i", "j", "k", "l", "m", "n", "o", "p", "q", "r", "s",
      "t", "u", "v", "w", "x", "y", "z", "{", "|", "}", "~">>

\* ord(c): the printable characters start at 32; the tab is 9
Code(c) ==
    IF c = "\t" THEN 9
    ELSE 31 + (CHOOSE i \in 1..Len(Ascii) : Ascii[i] = c)

IsUpper(c) == Code(c) >= 65 /\ Code(c) <= 90
IsLetter(c) == IsUpper(c) \/ (Code(c) >= 97 /\ Code(c) <= 122)
IsDigit(c) == Code(c) >= 48 /\ Code(c) <= 57
\* the characters of this model that the whitespace class of the regular expression matches
IsWhitespace(c) == c \in {" ", "\t"}

\* str.lower() on one character, and on a string
LowerChar(c) == IF IsUpper(c) THEN Ascii[Code(c) + 32 - 31] ELSE c
Lower(str) == [i \in 1..Len(str) |-> LowerChar(str[i])]

RECURSIVE StrLess(_, _)
\* a < b for Python strings
StrLess(a, b) ==
    IF b = <<>> THEN FALSE
    ELSE IF a = <<>> THEN TRUE
    ELSE IF a[1] = b[1] THEN StrLess(Tail(a), Tail(b))
    ELSE Code(a[1]) < Code(b[1])

\* every string of at most n characters of cs
StringsOver(cs, n) == UNION {[1..k -> cs] : k \in 0..n}

----------------------------------------------------------------------------
(* clean_filename *)

\* the class of line 27 with the hyphen left out
Kept_NoHyphen(c) == IsLetter(c) \/ IsDigit(c) \/ IsWhitespace(c)

\* line 26: the characters [^a-zA-Z0-9\s-] does not match, which re.sub keeps
Kept(c) == IsLetter(c) \/ IsDigit(c) \/ IsWhitespace(c) \/ c = "-"

RECURSIVE Filter(_)
\* line 26: re.sub(r'[^a-zA-Z0-9\s-]', '', text)
Filter(str) ==
    IF str = <<>> THEN <<>>
    ELSE (IF Kept(str[1]) THEN <<str[1]>> ELSE <<>>) \o Filter(Tail(str))

\* line 27: cleaned.replace(' ', '_')
ReplaceSpaces(str) == [i \in 1..Len(str) |-> IF str[i] = " " THEN "_" ELSE str[i]]

\* lines 24-28
clean_filename(str) == ReplaceSpaces(Filter(str))

CleanChars == {"a", "Z", "7", " ", "\t", "-", "_", "!"}

NotCleaned == [done |-> FALSE, value |-> <<>>]

\* clean_filename(text)
Clean ==
    /\ ~cleaned.done
    /\ cleaned' = [done |-> TRUE, value |-> clean_filename(text)]
    /\ UNCHANGED text
    /\ UNCHANGED <<fetchVars, handlerVars>>

\* clean_filename is given its own output
Again ==
    /\ cleaned.done
    /\ text' = cleaned.value
    /\ cleaned' = NotCleaned
    /\ UNCHANGED <<fetchVars, handlerVars>>

CleanInit ==
    /\ text \in StringsOver(CleanChars, MaxLen)
    /\ cleaned = NotCleaned

----------------------------------------------------------------------------
(* Tables: what pd.read_csv and pd.concat build from the API's pages *)

Columns == {"manufacturername", "name", "letterdate", "url"}

\* a missing value, as pd.read_csv reads an empty field; NaT, as
\* pd.to_datetime(errors='coerce') answers for it and for what it cannot parse
NaN == <<>>
NaT == <<>>

EmptyTable == [cols |-> {}, rows |-> <<>>]
IsEmpty(data) == data.rows = <<>>

Mfrs == {<<"A", "b">>, <<"a", "b">>}
Names == {<<"V">>, <<"v">>}
LetterDates ==
    {<<"9", "/", "1", "/", "2", "0", "2", "0">>,
     <<"1", "0", "/", "3", "/", "2", "0", "2", "0">>,
     <<"T", "B", "D">>,
     NaN}

\* the row that fills a page up
Filler ==
    [manufacturername |-> <<"C">>, name |-> <<"f">>,
     letterdate |-> <<"9", "/", "1", "/", "2", "0", "2", "0">>]

BaseRows(n) ==
    UNION {[1..k -> [manufacturername : Mfrs, name : Names,
                     letterdate : LetterDates]] : k \in 0..n}

\* a table fetch_nhtsa_data can return when it is not empty: at least one
\* full page; every row has its own URL
TableOf(base) ==
    [cols |-> Columns,
     rows |-> [i \in 1..min_rows |->
                 LET r == IF i <= Len(base) THEN base[i] ELSE Filler
                 IN  [manufacturername |-> r.manufacturername,
                      name |-> r.name,
                      letterdate |-> r.letterdate,
                      url |-> i]]]

\* the same table when the API's CSV has no column c
DropColumn(data, c) ==
    [cols |-> data.cols \ {c},
     rows |-> [i \in 1..Len(data.rows) |->
                 [k \in data.cols \ {c} |-> data.rows[i][k]]]]

Tables ==
    {EmptyTable}
    \cup {TableOf(b) : b \in BaseRows(MaxBase)}
    \cup {DropColumn(TableOf(b), c) : b \in BaseRows(1), c \in Columns}

----------------------------------------------------------------------------
(* pandas *)

RECURSIVE Split(_, _)
\* str.split(sep), the parts in order
Split(str, sep) ==
    IF str = <<>> THEN <<<<>>>>
    ELSE LET rest == Split(Tail(str), sep)
         IN  IF str[1] = sep THEN <<<<>>>> \o rest
             ELSE <<<<str[1]>> \o rest[1]>> \o Tail(rest)

AllDigits(str) == str # <<>> /\ \A i \in 1..Len(str) : IsDigit(str[i])

RECURSIVE Num(_)
\* int(str) of a string of digits
Num(str) ==
    IF str = <<>> THEN 0
    ELSE 10 * Num(SubSeq(str, 1, Len(str) - 1)) + (Code(str[Len(str)]) - 48)

\* pd.to_datetime(value, errors='coerce') for month/day/year strings:
\* <<year, month, day>>, or NaT
ParseDate(str) ==
    LET parts == Split(str, "/")
    IN  IF Len(parts) = 3 /\ \A i \in 1..3 : AllDigits(parts[i])
        THEN LET m == Num(parts[1])
                 d == Num(parts[2])
                 y == Num(parts[3])
             IN  IF m >= 1 /\ m <= 12 /\ d >= 1 /\ d <= 31
                 THEN <<y, m, d>> ELSE NaT
        ELSE NaT

\* a < b for two timestamps
DateLess(a, b) ==
    \/ a[1] < b[1]
    \/ a[1] = b[1] /\ a[2] < b[2]
    \/ a[1] = b[1] /\ a[2] = b[2] /\ a[3] < b[3]

RECURSIVE SortedStrs(_)
\* sorted(S) for a set of strings
SortedStrs(S) ==
    IF S = {} THEN <<>>
    ELSE LET least == CHOOSE x \in S : \A z \in S : ~StrLess(z, x)
         IN  <<least>> \o SortedStrs(S \ {least})

Values(data, c) == {data.rows[i][c] : i \in 1..Len(data.rows)}

\* groupby('manufacturername')['letterdate'].max() for one group: the
\* greatest of the group's strings, missing values skipped
GroupMax(data, m) ==
    LET vals == {data.rows[i].letterdate :
                   i \in {j \in 1..Len(data.rows) :
                            data.rows[j].manufacturername = m}} \ {NaN}
    IN  IF vals = {} THEN NaN
        ELSE CHOOSE v \in vals : \A w \in vals : ~StrLess(v, w)

\* sort_values(ascending=False, na_position='last'): a goes before b
DescNaLast(a, b) == a # NaT /\ (b = NaT \/ DateLess(b, a))

Perms(n) == {p \in [1..n -> 1..n] : \A i, j \in 1..n : p[i] = p[j] => i = j}

\* sort_values('letterdate', ascending=False, na_position='last') of a
\* frame: every order the unstable default sort may leave equal keys in
SortedByDate(frame) ==
    {[i \in 1..Len(frame) |-> frame[p[i]]] : p \in
       {q \in Perms(Len(frame)) :
          \A i, j \in 1..Len(frame) :
            i < j => ~DescNaLast(frame[q[j]].letterdate, frame[q[i]].letterdate)}}

RECURSIVE DropDuplicates(_, _)
\* drop_duplicates(subset=['manufacturername', 'name']): the first row of
\* each pair is kept
DropDuplicates(rows, seen) ==
    IF rows = <<>> THEN <<>>
    ELSE LET key == <<rows[1].manufacturername, rows[1].name>>
         IN  IF key \in seen THEN DropDuplicates(Tail(rows), seen)
             ELSE <<rows[1]>> \o DropDuplicates(Tail(rows), seen \cup {key})

\* the sort of line 167 with every key descending
VersionBefore_AllDescending(a, b) ==
    \/ DescNaLast(a.letterdate_dt, b.letterdate_dt)
    \/ /\ a.letterdate_dt = b.letterdate_dt
       /\ \/ StrLess(b.manufacturername, a.manufacturername)
          \/ /\ a.manufacturername = b.manufacturername
             /\ StrLess(b.name, a.name)

\* line 167: sort_values(['letterdate_dt', 'manufacturername', 'name'],
\* ascending=[False, True, True], na_position='last'): a goes before b
VersionBefore(a, b) ==
    \/ DescNaLast(a.letterdate_dt, b.letterdate_dt)
    \/ /\ a.letterdate_dt = b.letterdate_dt
       /\ \/ StrLess(a.manufacturername, b.manufacturername)
          \/ /\ a.manufacturername = b.manufacturername
             /\ StrLess(a.name, b.name)

RECURSIVE InsertVersion(_, _)
InsertVersion(x, sorted) ==
    IF sorted = <<>> THEN <<x>>
    ELSE IF VersionBefore(sorted[1], x)
         THEN <<sorted[1]>> \o InsertVersion(x, Tail(sorted))
         ELSE <<x>> \o sorted

RECURSIVE SortVersions(_)
\* the stable sort of line 167
SortVersions(rows) ==
    IF rows = <<>> THEN <<>>
    ELSE InsertVersion(rows[1], SortVersions(Tail(rows)))

----------------------------------------------------------------------------
(* The handlers.  Each begins with data = fetch_nhtsa_data(year), which     *)
(* Spec and SpecConc model; here table is the value that call returned:    *)
(* the empty frame, or at least one full page of rows.                      *)

NoRequest ==
    [handler |-> "none", year |-> 0, sort |-> "", manufacturers |-> <<>>,
     method |-> "", manufacturer |-> <<>>, version |-> <<>>]

\* jsonify(...) with status 200, send_file(...), or the 500 of an exception
\* no handler catches
NoResponse ==
    [status |-> 0, error |-> "", args |-> <<>>, body |-> <<>>,
     sorted_by |-> "", pdf_url |-> 0, filename |-> <<>>, attachment |-> FALSE]
Json == [NoResponse EXCEPT !.status = 200]
Error(msg) == [Json EXCEPT !.error = msg]
Uncaught(exc) == [NoResponse EXCEPT !.status = 500, !.error = exc]

\* lines 97-136, after data = fetch_nhtsa_data(year)
get_manufacturers(data, sort_by) ==
    IF IsEmpty(data) THEN {Error("No data found for year")}
    ELSE IF "manufacturername" \notin data.cols
    THEN {Error("Invalid data format received from API")}
    ELSE IF sort_by = "date" /\ "letterdate" \in data.cols
    THEN LET keys == SortedStrs(Values(data, "manufacturername"))
             manufacturer_dates ==
                 [i \in 1..Len(keys) |->
                    [manufacturername |-> keys[i],
                     letterdate |-> ParseDate(GroupMax(data, keys[i]))]]
         IN  {[Json EXCEPT
                 !.sorted_by = "date",
                 !.body = [i \in 1..Len(sorted) |->
                             [name |-> sorted[i].manufacturername,
                              latest_date |-> sorted[i].letterdate]]] :
                sorted \in SortedByDate(manufacturer_dates)}
    ELSE {[Json EXCEPT
             !.sorted_by = "name",
             !.body = SortedStrs({m \in Values(data, "manufacturername") :
                                    m # <<>> /\ \E i \in 1..Len(m) :
                                                  ~IsWhitespace(m[i])})]}

\* lines 139-180, after data = fetch_nhtsa_data(year)
get_versions(data, manufacturers) ==
    IF manufacturers = <<>> THEN Error("No manufacturers selected")
    ELSE IF IsEmpty(data) THEN Error("No data available for year")
    ELSE IF "manufacturername" \notin data.cols THEN Uncaught("KeyError")
    ELSE LET wanted == {manufacturers[i] : i \in 1..Len(manufacturers)}
             filtered_data ==
                 SelectSeq(data.rows, LAMBDA r : r.manufacturername \in wanted)
         IN  IF filtered_data = <<>>
             THEN Error("No versions found for selected manufacturers")
             ELSE IF ~({"name", "letterdate"} \subseteq data.cols)
             THEN Uncaught("KeyError")
             ELSE LET kept == DropDuplicates(filtered_data, {})
                      versions ==
                          SortVersions(
                            [i \in 1..Len(kept) |->
                               [manufacturername |-> kept[i].manufacturername,
                                name |-> kept[i].name,
                                letterdate |-> kept[i].letterdate,
                                letterdate_dt |-> ParseDate(kept[i].letterdate)]])
                  IN  [Json EXCEPT
                         !.body = [i \in 1..Len(versions) |->
                                     [manufacturer |-> versions[i].manufacturername,
                                      name |-> versions[i].name,
                                      date |-> versions[i].letterdate]]]

\* the lookup of lines 203-215 made without the exact match
Lookup_CaseInsensitiveOnly(data, manufacturer, version) ==
    SelectSeq(data.rows,
              LAMBDA r : /\ Lower(r.manufacturername) = Lower(manufacturer)
                         /\ Lower(r.name) = Lower(version))

\* lines 203-215: the rows that match exactly, or else without case
Lookup(data, manufacturer, version) ==
    LET exact == SelectSeq(data.rows,
                           LAMBDA r : /\ r.manufacturername = manufacturer
                                      /\ r.name = version)
    IN  IF exact = <<>>
        THEN SelectSeq(data.rows,
                       LAMBDA r : /\ Lower(r.manufacturername) = Lower(manufacturer)
                                  /\ Lower(r.name) = Lower(version))
        ELSE exact

PdfOutcomes == {"200", "404", "exception"}

\* lines 183-259, after nhtsa_data = fetch_nhtsa_data(year); outcome is
\* what requests.get(pdf_url) does
get_pdf(data, y, method, manufacturer, version, outcome) ==
    IF manufacturer = <<>> \/ version = <<>>
    THEN Error("Missing manufacturer or version")
    ELSE IF IsEmpty(data) THEN Error("No data available for year")
    ELSE IF ~({"manufacturername", "name"} \subseteq data.cols)
    THEN Uncaught("KeyError")
    ELSE LET version_data == Lookup(data, manufacturer, version)
         IN  IF version_data = <<>>
             THEN [Error("Version not found for manufacturer") EXCEPT
                     !.args = <<version, manufacturer>>]
             ELSE IF "url" \notin data.cols
             THEN Error("PDF URL not available in data")
             ELSE LET pdf_url == version_data[1].url
                  IN  IF outcome = "200"
                      THEN [NoResponse EXCEPT
                              !.status = 200,
                              !.pdf_url = pdf_url,
                              !.filename = <<y, clean_filename(manufacturer),
                                             clean_filename(version)>>,
                              !.attachment = (method = "POST")]
                      ELSE IF outcome = "404"
                      THEN [Error("Could not fetch PDF. Status code") EXCEPT
                              !.pdf_url = pdf_url]
                      ELSE [Error("Error accessing PDF") EXCEPT
                              !.pdf_url = pdf_url]

SortModes == {"date", "name"}
ManufacturerLists ==
    {<<>>, <<<<"A", "b">>>>, <<<<"A", "b">>, <<"a", "b">>>>,
     <<<<"a", "b">>, <<"C">>>>}
Methods == {"GET", "POST"}
\* request.args.get / request.form.get: a value, or nothing
ManufacturerParams == {<<>>, <<"A", "b">>}
VersionParams == {<<>>, <<"V">>}

\* one request is answered on each table
Unanswered == request.handler = "none"

\* GET /get_manufacturers/<year>?sort=...
GetManufacturers ==
    \E y \in Years, sort_by \in SortModes :
      /\ Unanswered
      /\ request' = [NoRequest EXCEPT !.handler = "get_manufacturers",
                                      !.year = y, !.sort = sort_by]
      /\ response' \in get_manufacturers(table, sort_by)
      /\ UNCHANGED table
      /\ UNCHANGED <<fetchVars, cleanVars>>

\* POST /get_versions/<year>
GetVersions ==
    \E y \in Years, ms \in ManufacturerLists :
      /\ Unanswered
      /\ request' = [NoRequest EXCEPT !.handler = "get_versions",
                                      !.year = y, !.manufacturers = ms]
      /\ response' = get_versions(table, ms)
      /\ UNCHANGED table
      /\ UNCHANGED <<fetchVars, cleanVars>>

\* GET or POST /get_pdf/<year>
GetPdf ==
    \E y \in Years, method \in Methods, m \in ManufacturerParams,
       v \in VersionParams, outcome \in PdfOutcomes :
      /\ Unanswered
      /\ request' = [NoRequest EXCEPT !.handler = "get_pdf", !.year = y,
                                      !.method = method, !.manufacturer = m,
                                      !.version = v]
      /\ response' = get_pdf(table, y, method, m, v, outcome)
      /\ UNCHANGED table
      /\ UNCHANGED <<fetchVars, cleanVars>>

HandlersInit ==
    /\ table \in Tables
    /\ request = NoRequest
    /\ response = NoResponse

----------------------------------------------------------------------------
(* The upstream API *)

\* the rows of page p of year y when the API serves n rows: row i is <<y, p, i>>
PageRows(y, p, n) == [i \in 1..n |-> <<y, p, i>>]

\* the clock advances by a minute, or by two minutes less than the cache's
\* duration, so that ages of 29, 30 and 31 minutes are all met
TickSteps == {1, CACHE_DURATION - 2}

\* a page served with fewer rows than a full one, and a full one
ShortCounts == {0, min_rows - 1}
FullCounts == {min_rows}

\* what requests.get followed by pd.read_csv can produce for page p of year
\* y: a full page only while the API holds that many
Outcomes(y, p) ==
    {[kind |-> "exception", rows |-> <<>>],      \* requests.get raises
     [kind |-> "status", rows |-> <<>>],         \* status_code != 200
     [kind |-> "badcsv", rows |-> <<>>]}         \* 200, pd.read_csv raises
    \cup {[kind |-> "ok", rows |-> PageRows(y, p, n)] : n \in ShortCounts}
    \cup {[kind |-> "ok", rows |-> PageRows(y, p, n)] :
              n \in IF p <= available[y] THEN FullCounts ELSE {}}

----------------------------------------------------------------------------
(* get_cached_data, cache_data, fetch_nhtsa_data *)

NoLocal == <<0, <<>>>>
NotObserved == [entry |-> FALSE, stamp |-> 0, clock |-> 0]

\* the comparison of line 34 made inclusive
IsFresh_Inclusive(cached_time, t) == t - cached_time <= CACHE_DURATION

\* line 34: datetime.now() - cached_time < CACHE_DURATION
IsFresh(cached_time, t) == t - cached_time < CACHE_DURATION

\* line 72: df.empty or len(df) < 10
IsShort(df) == df = <<>> \/ Len(df) < min_rows

\* the loop condition of line 61 off by one
LoopCond_OffByOne(p) == p <= max_pages + 1

\* line 61: while page <= max_pages
LoopCond(p) == p <= max_pages

\* line 86 without its test
ShouldCache_Always(data) == TRUE

\* line 86: if not all_data.empty
ShouldCache(data) == data # <<>>

\* line 45: memory_cache[year] = (datetime.now(), data)
cache_data(cache, y, data, t) ==
    [k \in DOMAIN cache \cup {y} |-> IF k = y THEN <<t, data>> ELSE cache[k]]

\* line 39: del memory_cache[year]
DelKey(cache, y) == [k \in DOMAIN cache \ {y} |-> cache[k]]

Idle(r) == pc[r] = "idle"

\* a handler calls fetch_nhtsa_data(y)
Call(r, y) ==
    /\ Idle(r)
    /\ pc' = [pc EXCEPT ![r] = "L32"]
    /\ year' = [year EXCEPT ![r] = y]
    /\ observed' = [observed EXCEPT ![r] =
                      IF y \in DOMAIN memory_cache
                      THEN [entry |-> TRUE, stamp |-> memory_cache[y][1],
                            clock |-> 0]
                      ELSE NotObserved]
    /\ UNCHANGED <<now, memory_cache, local, all_data, page, result,
                   requests, responses, available, ticks>>
    /\ UNCHANGED <<handlerVars, cleanVars>>

\* the single-threaded server: a request starts when no other is running
CallSeq(r, y) ==
    /\ \A q \in Reqs : Idle(q)
    /\ Call(r, y)

\* line 32: if year in memory_cache
GetCached_In(r) ==
    /\ pc[r] = "L32"
    /\ pc' = [pc EXCEPT ![r] = IF year[r] \in DOMAIN memory_cache
                                THEN "L33" ELSE "L57"]
    /\ UNCHANGED <<now, memory_cache, year, local, all_data, page, result,
                   requests, responses, observed, available, ticks>>
    /\ UNCHANGED <<handlerVars, cleanVars>>

\* line 33: cached_time, data = memory_cache[year]   (KeyError if absent)
GetCached_Read(r) ==
    /\ pc[r] = "L33"
    /\ IF year[r] \in DOMAIN memory_cache
       THEN /\ local' = [local EXCEPT ![r] = memory_cache[year[r]]]
            /\ pc' = [pc EXCEPT ![r] = "L34"]
       ELSE /\ pc' = [pc EXCEPT ![r] = "raised"]
            /\ UNCHANGED local
    /\ UNCHANGED <<now, memory_cache, year, all_data, page, result,
                   requests, responses, observed, available, ticks>>
    /\ UNCHANGED <<handlerVars, cleanVars>>

\* lines 34-36: fresh: get_cached_data returns data, and fetch_nhtsa_data
\* returns it at line 53; otherwise go on to the del of line 39
GetCached_Check(r) ==
    /\ pc[r] = "L34"
    /\ observed' = [observed EXCEPT ![r].clock = now]
    /\ IF IsFresh(local[r][1], now)
       THEN /\ result' = [result EXCEPT ![r] = local[r][2]]
            /\ pc' = [pc EXCEPT ![r] = "done"]
       ELSE /\ pc' = [pc EXCEPT ![r] = "L39"]
            /\ UNCHANGED result
    /\ UNCHANGED <<now, memory_cache, year, local, all_data, page,
                   requests, responses, available, ticks>>
    /\ UNCHANGED <<handlerVars, cleanVars>>

\* line 39: del memory_cache[year]   (KeyError if absent); then return None
GetCached_Del(r) ==
    /\ pc[r] = "L39"
    /\ IF year[r] \in DOMAIN memory_cache
       THEN /\ memory_cache' = DelKey(memory_cache, year[r])
            /\ pc' = [pc EXCEPT ![r] = "L57"]
       ELSE /\ pc' = [pc EXCEPT ![r] = "raised"]
            /\ UNCHANGED memory_cache
    /\ UNCHANGED <<now, year, local, all_data, page, result,
                   requests, responses, observed, available, ticks>>
    /\ UNCHANGED <<handlerVars, cleanVars>>

\* lines 57-59: all_data = pd.DataFrame(); page = 1
Fetch_Begin(r) ==
    /\ pc[r] = "L57"
    /\ all_data' = [all_data EXCEPT ![r] = <<>>]
    /\ page' = [page EXCEPT ![r] = 1]
    /\ pc' = [pc EXCEPT ![r] = "L61"]
    /\ UNCHANGED <<now, memory_cache, year, local, result,
                   requests, responses, observed, available, ticks>>
    /\ UNCHANGED <<handlerVars, cleanVars>>

\* lines 61-81: the loop's test, and one iteration when it holds
Fetch_Loop(r) ==
    /\ pc[r] = "L61"
    /\ IF LoopCond(page[r])
       THEN \E o \in Outcomes(year[r], page[r]) :
              /\ requests' = [requests EXCEPT ![r] = Append(@, page[r])]
              /\ responses' = [responses EXCEPT ![r] = Append(@, o)]
              /\ IF o.kind = "ok" /\ ~IsShort(o.rows)
                 THEN /\ all_data' = [all_data EXCEPT ![r] = @ \o o.rows]
                      /\ page' = [page EXCEPT ![r] = @ + 1]
                      /\ UNCHANGED pc
                 ELSE /\ pc' = [pc EXCEPT ![r] = "L83"]
                      /\ UNCHANGED <<all_data, page>>
       ELSE /\ pc' = [pc EXCEPT ![r] = "L83"]
            /\ UNCHANGED <<all_data, page, requests, responses>>
    /\ UNCHANGED <<now, memory_cache, year, local, result, observed,
                   available, ticks>>
    /\ UNCHANGED <<handlerVars, cleanVars>>

\* lines 83-89: cache the table if it is not empty, and return it
Fetch_Store(r) ==
    /\ pc[r] = "L83"
    /\ memory_cache' = IF ShouldCache(all_data[r])
                       THEN cache_data(memory_cache, year[r], all_data[r], now)
                       ELSE memory_cache
    /\ result' = [result EXCEPT ![r] = all_data[r]]
    /\ pc' = [pc EXCEPT ![r] = "done"]
    /\ UNCHANGED <<now, year, local, all_data, page,
                   requests, responses, observed, available, ticks>>
    /\ UNCHANGED <<handlerVars, cleanVars>>

\* the handler that called is finished: the request slot is free again
Finish(r) ==
    /\ pc[r] \in {"done", "raised"}
    /\ pc' = [pc EXCEPT ![r] = "idle"]
    /\ year' = [year EXCEPT ![r] = CHOOSE y \in Years : TRUE]
    /\ local' = [local EXCEPT ![r] = NoLocal]
    /\ all_data' = [all_data EXCEPT ![r] = <<>>]
    /\ page' = [page EXCEPT ![r] = 1]
    /\ result' = [result EXCEPT ![r] = <<>>]
    /\ requests' = [requests EXCEPT ![r] = <<>>]
    /\ responses' = [responses EXCEPT ![r] = <<>>]
    /\ observed' = [observed EXCEPT ![r] = NotObserved]
    /\ UNCHANGED <<now, memory_cache, available, ticks>>
    /\ UNCHANGED <<handlerVars, cleanVars>>

\* the clock advances
Tick ==
    /\ ticks < MaxTicks
    /\ ticks' = ticks + 1
    /\ \E d \in TickSteps : now' = now + d
    /\ UNCHANGED <<memory_cache, pc, year, local, all_data, page, result,
                   requests, responses, observed, available>>
    /\ UNCHANGED <<handlerVars, cleanVars>>

FetchInit ==
    /\ now = 0
    /\ memory_cache = <<>>
    /\ pc = [r \in Reqs |-> "idle"]
    /\ year = [r \in Reqs |-> CHOOSE y \in Years : TRUE]
    /\ local = [r \in Reqs |-> NoLocal]
    /\ all_data = [r \in Reqs |-> <<>>]
    /\ page = [r \in Reqs |-> 1]
    /\ result = [r \in Reqs |-> <<>>]
    /\ requests = [r \in Reqs |-> <<>>]
    /\ responses = [r \in Reqs |-> <<>>]
    /\ observed = [r \in Reqs |-> NotObserved]
    /\ ticks = 0

Step(r) ==
    \/ GetCached_In(r)
    \/ GetCached_Read(r)
    \/ GetCached_Check(r)
    \/ GetCached_Del(r)
    \/ Fetch_Begin(r)
    \/ Fetch_Loop(r)
    \/ Fetch_Store(r)
    \/ Finish(r)

\* the API holds more full pages than the loop will ever ask for
HandlersIdle ==
    /\ table = EmptyTable
    /\ request = NoRequest
    /\ response = NoResponse

CleanIdle ==
    /\ text = <<>>
    /\ cleaned = NotCleaned

Init ==
    /\ FetchInit
    /\ available = [y \in Years |-> max_pages + 1]
    /\ HandlersIdle
    /\ CleanIdle

\* the API holds a small data set
InitConc ==
    /\ FetchInit
    /\ available = [y \in Years |-> ConcFullPages]
    /\ HandlersIdle
    /\ CleanIdle

Next ==
    \/ Tick
    \/ \E r \in Reqs : \E y \in Years : CallSeq(r, y)
    \/ \E r \in Reqs : Step(r)

Spec == Init /\ [][Next]_vars

NextConc ==
    \/ Tick
    \/ \E r \in Reqs : \E y \in Years : Call(r, y)
    \/ \E r \in Reqs : Step(r)

SpecConc == InitConc /\ [][NextConc]_vars

FetchIdle ==
    /\ FetchInit
    /\ available = [y \in Years |-> max_pages + 1]

InitClean ==
    /\ CleanInit
    /\ FetchIdle
    /\ HandlersIdle

NextClean ==
    \/ Clean
    \/ Again

SpecClean == InitClean /\ [][NextClean]_vars

InitHandlers ==
    /\ HandlersInit
    /\ FetchIdle
    /\ CleanIdle

NextHandlers ==
    \/ GetManufacturers
    \/ GetVersions
    \/ GetPdf

SpecHandlers == InitHandlers /\ [][NextHandlers]_vars

----------------------------------------------------------------------------
(* Claims about the cache and the fetch *)

RECURSIVE ConcatOk(_)
\* the rows of every page that came back with status 200 and was parsed
ConcatOk(rs) ==
    IF rs = <<>> THEN <<>>
    ELSE (IF rs[1].kind = "ok" THEN rs[1].rows ELSE <<>>) \o ConcatOk(Tail(rs))

\* a response at which the pagination is to stop (C2)
Stopping(o) == o.kind \in {"exception", "status", "badcsv"} \/ Len(o.rows) < 10

Returned(r) == pc[r] = "done"
Hit(r) == Returned(r) /\ requests[r] = <<>>
Miss(r) == Returned(r) /\ requests[r] # <<>>

\* C1: fetch_nhtsa_data(y) returns the cached table without asking the API
\* if and only if memory_cache held an entry for y that was less than 30
\* minutes old when get_cached_data read the clock; at 30 minutes or more
\* the entry is deleted, get_cached_data returns None and the API is asked.
C1_ExpiryAtBoundary ==
    \A r \in Reqs :
      /\ Returned(r) =>
           (Hit(r) <=> (observed[r].entry
                        /\ observed[r].clock - observed[r].stamp < 30))
      /\ Hit(r) =>
           /\ year[r] \in DOMAIN memory_cache
           /\ result[r] = memory_cache[year[r]][2]
      /\ (pc[r] \in {"L57", "L61", "L83"} /\ requests[r] = <<>>) =>
           year[r] \notin DOMAIN memory_cache
      /\ (Returned(r) /\ observed[r].entry
            /\ observed[r].clock - observed[r].stamp >= 30) =>
           Len(requests[r]) >= 1

\* an entry exactly 30 minutes old was found, deleted and fetched again
C1_Witness ==
    \E r \in Reqs :
      /\ Miss(r)
      /\ observed[r].entry
      /\ observed[r].clock - observed[r].stamp = 30

\* C2: on a cache miss the pagination loop terminates and stops at the first
\* of: a page of fewer than 10 rows, a non-200 status, an exception, 10 pages
\* requested; it asks for pages 1, 2, 3, ... in order, at most 10 of them,
\* and asks for nothing once a stopping condition has occurred.
C2_PaginationStops ==
    \A r \in Reqs :
      /\ Len(requests[r]) <= 10
      /\ Len(responses[r]) = Len(requests[r])
      /\ \A i \in 1..Len(requests[r]) : requests[r][i] = i
      /\ \A i \in 1..(Len(responses[r]) - 1) : ~Stopping(responses[r][i])
      /\ pc[r] = "L61" =>
           /\ page[r] = Len(requests[r]) + 1
           /\ \A i \in 1..Len(responses[r]) : ~Stopping(responses[r][i])
           /\ ENABLED Fetch_Loop(r)
      /\ (pc[r] \in {"L83", "done"} /\ requests[r] # <<>>) =>
           \/ Stopping(responses[r][Len(responses[r])])
           \/ Len(requests[r]) = 10

\* the loop ran into the page cap: ten full pages, ten requests
C2_Witness ==
    \E r \in Reqs :
      /\ Miss(r)
      /\ Len(requests[r]) = 10
      /\ ~Stopping(responses[r][10])

\* C3: the table returned on a cache miss, and the table cached, holds every
\* row of every page fetched with status 200 and parsed, the rows of a final
\* page of fewer than 10 rows included.
C3_FullSetOfRecords ==
    \A r \in Reqs :
      Miss(r) =>
        /\ result[r] = ConcatOk(responses[r])
        /\ year[r] \in DOMAIN memory_cache =>
             memory_cache[year[r]][2] = ConcatOk(responses[r])

\* C10: every entry of memory_cache holds a non-empty table; a fetch that
\* yields no rows writes no entry, and when it follows the expiry of an
\* earlier entry the year is left with no entry at all.
C10_NoEmptyEntries ==
    /\ \A y \in DOMAIN memory_cache : memory_cache[y][2] # <<>>
    /\ \A r \in Reqs :
         (Miss(r) /\ result[r] = <<>>) => year[r] \notin DOMAIN memory_cache

\* an entry expired, and the fetch that followed came back empty
C10_Witness ==
    \E r \in Reqs :
      /\ Miss(r)
      /\ result[r] = <<>>
      /\ observed[r].entry

\* C4: when requests interleave on memory_cache the only effect is redundant
\* fetching: no request raises because of another's read, delete or write,
\* and every request returns a table cached fresh or fetched by itself.
C4_OnlyRedundantWork ==
    \A r \in Reqs :
      /\ pc[r] # "raised"
      /\ Hit(r) => observed[r].clock - local[r][1] < 30 /\ result[r] = local[r][2]
      /\ Miss(r) => result[r] = all_data[r]

----------------------------------------------------------------------------
(* Claims about the handlers and clean_filename *)

Answered(h) == request.handler = h
WellFormed == ~IsEmpty(table) /\ table.cols = Columns
RowIds == 1..Len(table.rows)

\* C5: every failure in a handler is answered with a JSON object that has an
\* 'error' field and status 200; no request ends in an uncaught exception
\* or a response that is not 200.
C5_FailuresAnswered200 ==
    ~Unanswered => response.status = 200

ExactIds ==
    {i \in RowIds : /\ table.rows[i].manufacturername = request.manufacturer
                    /\ table.rows[i].name = request.version}
LowerIds ==
    {i \in RowIds :
       /\ Lower(table.rows[i].manufacturername) = Lower(request.manufacturer)
       /\ Lower(table.rows[i].name) = Lower(request.version)}
First(S) == CHOOSE i \in S : \A j \in S : i <= j

\* C6: in get_pdf the URL requested is that of the first row matching
\* (manufacturer, version) exactly, even when a row matching only without
\* case comes earlier; with no exact match it is that of the first row
\* matching without case; with neither, a 'not found' error naming the
\* version and the manufacturer is returned and no PDF is requested.
C6_ExactBeforeCaseInsensitive ==
    (/\ Answered("get_pdf")
     /\ request.manufacturer # <<>>
     /\ request.version # <<>>
     /\ WellFormed) =>
       /\ ExactIds # {} => response.pdf_url = table.rows[First(ExactIds)].url
       /\ (ExactIds = {} /\ LowerIds # {}) =>
            response.pdf_url = table.rows[First(LowerIds)].url
       /\ (ExactIds = {} /\ LowerIds = {}) =>
            /\ response.error = "Version not found for manufacturer"
            /\ response.args = <<request.version, request.manufacturer>>
            /\ response.pdf_url = 0

\* an exact match is used although a row matching without case comes first
C6_Witness ==
    /\ Answered("get_pdf")
    /\ WellFormed
    /\ request.manufacturer # <<>>
    /\ request.version # <<>>
    /\ ExactIds # {}
    /\ First(LowerIds) < First(ExactIds)
    /\ response.pdf_url = table.rows[First(ExactIds)].url

\* the parsed dates of a manufacturer's rows
DatesOf(m) ==
    {ParseDate(table.rows[i].letterdate) :
       i \in {j \in RowIds : table.rows[j].manufacturername = m}} \ {NaT}
\* the chronologically latest of them, NaT when there is none
LatestOf(m) ==
    IF DatesOf(m) = {} THEN NaT
    ELSE CHOOSE d \in DatesOf(m) : \A e \in DatesOf(m) : ~DateLess(d, e)

\* C8: with sort=date each manufacturer is listed exactly once, with the
\* chronologically latest of its dates as latest_date, ordered by that date
\* descending, manufacturers with no date after all those that have one.
C8_SortedByLatestDate ==
    (Answered("get_manufacturers") /\ request.sort = "date" /\ WellFormed) =>
      LET body == response.body
      IN  /\ {body[i].name : i \in 1..Len(body)} = Values(table, "manufacturername")
          /\ Len(body) = Cardinality(Values(table, "manufacturername"))
          /\ \A i \in 1..Len(body) : body[i].latest_date = LatestOf(body[i].name)
          /\ \A i, j \in 1..Len(body) :
               i < j => ~DescNaLast(LatestOf(body[j].name), LatestOf(body[i].name))

WantedPairs ==
    {<<table.rows[i].manufacturername, table.rows[i].name>> :
       i \in {j \in RowIds :
                \E k \in 1..Len(request.manufacturers) :
                  table.rows[j].manufacturername = request.manufacturers[k]}}

\* the order of the claim: date descending, then manufacturer, then name,
\* entries with no date last: a does not come after b
InClaimedOrder(a, b) ==
    LET da == ParseDate(a.date)
        db == ParseDate(b.date)
    IN  IF da # db
        THEN da # NaT /\ (db = NaT \/ DateLess(db, da))
        ELSE IF a.manufacturer # b.manufacturer
        THEN StrLess(a.manufacturer, b.manufacturer)
        ELSE a.name = b.name \/ StrLess(a.name, b.name)

\* C9: get_versions returns exactly one entry for each distinct
\* (manufacturer, name) pair among the rows of the requested manufacturers
\* and none for any other, ordered by parsed date descending, then
\* manufacturer, then name ascending, entries with no date last.
C9_VersionsDedupedAndSorted ==
    (Answered("get_versions") /\ WellFormed) =>
      LET body == response.body
      IN  /\ {<<body[i].manufacturer, body[i].name>> : i \in 1..Len(body)}
               = WantedPairs
          /\ Len(body) = Cardinality(WantedPairs)
          /\ \A i, j \in 1..Len(body) : i < j => InClaimedOrder(body[i], body[j])

\* three entries: two of one date in manufacturer order, one without a date
C9_Witness ==
    /\ Answered("get_versions")
    /\ WellFormed
    /\ Len(response.body) = 3
    /\ ParseDate(response.body[1].date) = ParseDate(response.body[2].date)
    /\ response.body[1].manufacturer # response.body[2].manufacturer
    /\ ParseDate(response.body[3].date) = NaT
    /\ Len(table.rows) > Cardinality(
         {<<table.rows[i].manufacturername, table.rows[i].name>> : i \in RowIds})

Underscore == "_"
OnlyOf(str, Ok(_)) == \A i \in 1..Len(str) : Ok(str[i])

\* C7 as stated: the result consists only of letters, digits and
\* underscores, is the input with every character other than a letter, a
\* digit or a space deleted and every space replaced by '_', and is left
\* unchanged by clean_filename.
C7_AsStated ==
    cleaned.done =>
      /\ OnlyOf(cleaned.value,
                LAMBDA c : IsLetter(c) \/ IsDigit(c) \/ c = Underscore)
      /\ cleaned.value =
           ReplaceSpaces(SelectSeq(text,
             LAMBDA c : IsLetter(c) \/ IsDigit(c) \/ c = " "))
      /\ clean_filename(cleaned.value) = cleaned.value

\* C7: the result consists only of ASCII letters, digits, hyphens,
\* underscores and whitespace other than the space; it is the input with
\* every character other than an ASCII letter, a digit, a whitespace
\* character or a hyphen deleted and every space replaced by '_'; and
\* clean_filename applied to it returns it with its underscores deleted.
C7_CleanFilename ==
    cleaned.done =>
      /\ OnlyOf(cleaned.value,
                LAMBDA c : \/ IsLetter(c) \/ IsDigit(c)
                           \/ c = Underscore \/ c = "-"
                           \/ (IsWhitespace(c) /\ c # " "))
      /\ cleaned.value =
           ReplaceSpaces(SelectSeq(text,
             LAMBDA c : \/ IsLetter(c) \/ IsDigit(c)
                        \/ IsWhitespace(c) \/ c = "-"))
      /\ clean_filename(cleaned.value) =
           SelectSeq(cleaned.value, LAMBDA c : c # Underscore)

\* a hyphen kept, a space replaced and another character deleted
C7_Witness ==
    /\ cleaned.done
    /\ \E i, j, k \in 1..Len(text) :
         text[i] = "-" /\ text[j] = " " /\ text[k] = "!"
    /\ cleaned.value = <<"-", "_">> \/ cleaned.value = <<"_", "-">>

====
